---- MODULE Spec2Model ----
(***************************************************************************)
(* gofi: a terminal file browser (src/main.go).                            *)
(*                                                                         *)
(* Three goroutines are modelled:                                          *)
(*   scanner  - scanDirectory, started by main with `go`                   *)
(*   loop     - the anonymous goroutine of Application.start               *)
(*              (NEW_ITEM_LOOP), the "ingestion loop"                      *)
(*   ui/main  - the main goroutine: tview's Run event loop, which calls    *)
(*              the input-capture handler, the list's changed handler and  *)
(*              the queued update closures, then waitgroup.Wait            *)
(*                                                                         *)
(* Channels: itemAdded (buffered, Item), stopReceiveNewItem (buffered,     *)
(* bool; only `true` is ever sent), and tview's update queue served by     *)
(* Run. QueueUpdateDraw returns after the queued closure has executed.     *)
(*                                                                         *)
(* tview behaviour the code relies on: Run handles key events and queued   *)
(* updates one at a time on the main goroutine; a Ctrl+C event returned by *)
(* the input handler makes it call Stop, after which the events already    *)
(* queued are still handled before Run returns; once Run has returned no   *)
(* queued update is executed any more. List.AddItem calls the changed      *)
(* handler for the first entry inserted.                                   *)
(***************************************************************************)
EXTENDS Naturals, Integers, Sequences, FiniteSets, TLC

\* ---------------------------------------------------------------- bounds
\* Largest directory listing explored.
MaxEntries == 3
\* Capacity of itemAdded in the model (make(chan Item, 100) in the code),
\* scaled down so that a full channel is reached with MaxEntries entries.
ItemChanCap == 2
\* Capacity of stopReceiveNewItem: make(chan bool, 10).
StopCap == 10

\* ------------------------------------------------------------- variables
VARIABLES
    files,              \* the listing ioutil.ReadDir would return: <<[name, statOk]>>
    scanPc,             \* scanner position
    scanIdx,            \* index of the entry the range loop is at
    path,               \* scanner local `path`
    scanItem,           \* scanner local `newItem`
    itemAdded,          \* app.itemAdded: buffered channel contents
    chClosed,           \* app.itemAdded has been closed
    stopCh,             \* app.stopReceiveNewItem: number of buffered `true` tokens
    loopPc,             \* ingestion loop position
    newItem,            \* ingestion loop local `newItem`
    items,              \* app.items
    selectedItemIndex,  \* app.selectedItemIndex (0-based, as in the code)
    listView,           \* main texts of the tview.List entries
    headerView,         \* text of app.headerView
    descriptionView,    \* text of app.descriptionView
    footerView,         \* text of app.footerView
    focus,              \* which primitive has the focus: "list" or "other"
    uiState,            \* Run: "starting", "running", "stopping", "returned"
    handlerBlocked,     \* the input handler is blocked in `stopReceiveNewItem <- true`
    updates,            \* tview's queue of update closures (the Item each captured)
    wg,                 \* app.waitgroup counter
    mainPc,             \* main goroutine: "run", "wait", "exited"
    crashed,            \* the process died of a panic: "no", "scanner", "ui"
    sent,               \* history: Items the scanner has sent on itemAdded
    tokensSent,         \* history: number of shutdown tokens sent
    closeCount,         \* history: number of close(app.itemAdded) executed
    doneCount,          \* history: number of waitgroup.Done executed
    itemsTouchedBy      \* history: goroutines that read or wrote app.items

vars == <<files, scanPc, scanIdx, path, scanItem, itemAdded, chClosed, stopCh,
          loopPc, newItem, items, selectedItemIndex, listView, headerView,
          descriptionView, footerView, focus, uiState, handlerBlocked, updates,
          wg, mainPc, crashed, sent, tokensSent, closeCount, doneCount,
          itemsTouchedBy>>

scanVars == <<scanPc, scanIdx, path, scanItem>>
viewVars == <<selectedItemIndex, listView, headerView, descriptionView, footerView>>
histVars == <<sent, tokensSent, closeCount, doneCount, itemsTouchedBy>>

\* ------------------------------------------------------------------ data
\* fmt.Sprintf("%s/%s", path, file.Name())
FullPath(p, name) == <<p, "/", name>>

\* What os.Stat and util.IsTextFile report for an entry: a fixed function of
\* its name (even names are directories, odd names are text files).
StatSize(name) == 10 * name
StatIsDir(name) == name % 2 = 0
IsTextFile(name) == ~StatIsDir(name)

\* The Description Sprintf of scanDirectory.
FormatDescription(p, name) ==
    [size   |-> StatSize(name),
     parent |-> p,
     isDir  |-> IF StatIsDir(name) THEN "Yes" ELSE "No",
     format |-> IF IsTextFile(name) THEN "Text" ELSE "Bin"]

\* Item{Title, Description, Footer} as scanDirectory builds it.
MakeItem(p, name) ==
    [Title |-> name, Description |-> FormatDescription(p, name),
     Footer |-> FullPath(p, name)]

\* The zero value of Item (what a receive on a closed, empty channel yields).
ZeroItem ==
    [Title |-> 0,
     Description |-> [size |-> 0, parent |-> "", isDir |-> "", format |-> ""],
     Footer |-> <<"", "", 0>>]

\* fmt.Sprintf("%d/%d: %s", a, b, s)
FormatFooter(a, b, s) == <<a, "/", b, ": ", s>>

NoText == <<>>

\* Directory listings: names 1..n in the (sorted) order ReadDir returns them,
\* each with the outcome of its os.Stat call.
Listings ==
    UNION { { [i \in 1..n |-> [name |-> i, statOk |-> ok[i]]] :
                ok \in [1..n -> BOOLEAN] } : n \in 0..MaxEntries }

\* -------------------------------------------------------------- process
\* The process is alive: no panic has killed it and main has not returned.
Alive == crashed = "no" /\ mainPc # "exited"

\* The ingestion loop's state in the words of the design.
LoopState ==
    IF loopPc = "exited" THEN "STOPPED"
    ELSE IF loopPc \in {"close", "done"} THEN "DRAINING"
    ELSE "RUNNING"

Init ==
    /\ files \in Listings
    /\ scanPc = "start"
    /\ scanIdx = 1
    /\ path = ""
    /\ scanItem = ZeroItem
    /\ itemAdded = <<>>
    /\ chClosed = FALSE
    /\ stopCh = 0
    /\ loopPc = "select"
    /\ newItem = ZeroItem
    /\ items = <<>>
    /\ selectedItemIndex = 0
    /\ listView = <<>>
    /\ headerView = NoText
    /\ descriptionView = NoText
    /\ footerView = NoText
    /\ focus = "list"
    /\ uiState = "starting"
    /\ handlerBlocked = FALSE
    /\ updates = <<>>
    /\ wg = 1
    /\ mainPc = "run"
    /\ crashed = "no"
    /\ sent = <<>>
    /\ tokensSent = 0
    /\ closeCount = 0
    /\ doneCount = 0
    /\ itemsTouchedBy = {}

\* -------------------------------------------------------------- scanner
\* scanDirectory lines 174-189: resolve the path (argument or os.Getwd).
ScanResolvePath ==
    /\ Alive /\ scanPc = "start"
    /\ \E hasArg \in BOOLEAN, getwdOk \in BOOLEAN :
         IF hasArg THEN path' = "arg" /\ scanPc' = "readdir"
         ELSE IF getwdOk THEN path' = "cwd" /\ scanPc' = "readdir"
         ELSE path' = path /\ scanPc' = "failed"
    /\ UNCHANGED <<files, scanIdx, scanItem, itemAdded, chClosed, stopCh, loopPc,
                   newItem, items, viewVars, focus, uiState, handlerBlocked,
                   updates, wg, mainPc, crashed, histVars>>

\* scanDirectory lines 191-196: ioutil.ReadDir; an error ends the scan.
ScanReadDir ==
    /\ Alive /\ scanPc = "readdir"
    /\ \E readOk \in BOOLEAN :
         scanPc' = IF readOk THEN "entry" ELSE "failed"
    /\ scanIdx' = 1
    /\ UNCHANGED <<files, path, scanItem, itemAdded, chClosed, stopCh, loopPc,
                   newItem, items, viewVars, focus, uiState, handlerBlocked,
                   updates, wg, mainPc, crashed, histVars>>

\* Where the range loop goes when os.Stat fails for entry i: `continue`.
AfterStatErrorAbort(i) == [pc |-> "done", idx |-> i]
AfterStatError(i) == [pc |-> "entry", idx |-> i + 1]

\* scanDirectory lines 198-229: one iteration of the range loop up to the send.
ScanStat ==
    /\ Alive /\ scanPc = "entry"
    /\ IF scanIdx > Len(files)
         THEN scanPc' = "done" /\ UNCHANGED <<scanIdx, scanItem>>
       ELSE IF ~files[scanIdx].statOk
         THEN /\ scanPc' = AfterStatError(scanIdx).pc
              /\ scanIdx' = AfterStatError(scanIdx).idx
              /\ UNCHANGED scanItem
       ELSE /\ scanItem' = MakeItem(path, files[scanIdx].name)
            /\ scanPc' = "send"
            /\ UNCHANGED scanIdx
    /\ UNCHANGED <<files, path, itemAdded, chClosed, stopCh, loopPc,
                   newItem, items, viewVars, focus, uiState, handlerBlocked,
                   updates, wg, mainPc, crashed, histVars>>

\* The range loop's step to the next entry after entry i (line 198).
NextEntrySkipsOne(i) == i + 2
NextEntry(i) == i + 1

\* A send on the buffered channel can proceed: the buffer has room.
SendReadyOneOver(ch) == Len(ch) <= ItemChanCap
SendReady(ch) == Len(ch) < ItemChanCap

\* scanDirectory line 231: itemAddedChannel <- newItem, channel open and not full.
\* With the channel full the send blocks: the action is disabled.
ScanSend ==
    /\ Alive /\ scanPc = "send"
    /\ ~chClosed
    /\ SendReady(itemAdded)
    /\ itemAdded' = Append(itemAdded, scanItem)
    /\ sent' = Append(sent, scanItem)
    /\ scanIdx' = NextEntry(scanIdx)
    /\ scanPc' = "entry"
    /\ UNCHANGED <<files, path, scanItem, chClosed, stopCh, loopPc,
                   newItem, items, viewVars, focus, uiState, handlerBlocked,
                   updates, wg, mainPc, crashed, tokensSent, closeCount,
                   doneCount, itemsTouchedBy>>

\* scanDirectory line 231 when app.itemAdded has been closed: a send on a
\* closed channel (pending or new) panics, and the panic ends the process.
ScanSendPanic ==
    /\ Alive /\ scanPc = "send"
    /\ chClosed
    /\ scanPc' = "panicked"
    /\ crashed' = "scanner"
    /\ UNCHANGED <<files, scanIdx, path, scanItem, itemAdded, chClosed, stopCh,
                   loopPc, newItem, items, viewVars, focus, uiState,
                   handlerBlocked, updates, wg, mainPc, histVars>>

ScannerNext ==
    ScanResolvePath \/ ScanReadDir \/ ScanStat \/ ScanSend \/ ScanSendPanic

\* ------------------------------------------------------- ingestion loop
\* `if stop` (line 124): a true token leads to close; anything else falls out
\* of the select into the next iteration.
AfterStopTokenNegated(stop) == IF ~stop THEN "close" ELSE "select"
AfterStopToken(stop) == IF stop THEN "close" ELSE "select"

\* select, case stop := <-app.stopReceiveNewItem (line 123). Go's select picks
\* among the ready cases at random, so this case and the item case are both
\* enabled when both channels hold a value. Only `true` is ever sent, so the
\* `if stop` branch is always taken.
LoopRecvStop ==
    /\ Alive /\ loopPc = "select"
    /\ stopCh > 0
    /\ stopCh' = stopCh - 1
    /\ loopPc' = AfterStopToken(TRUE)
    /\ UNCHANGED <<files, scanVars, itemAdded, chClosed, newItem, items, viewVars,
                   focus, uiState, handlerBlocked, updates, wg, mainPc, crashed,
                   histVars>>

\* line 125: close(app.itemAdded).
LoopClose ==
    /\ Alive /\ loopPc = "close"
    /\ chClosed' = TRUE
    /\ closeCount' = closeCount + 1
    /\ loopPc' = "done"
    /\ UNCHANGED <<files, scanVars, itemAdded, stopCh, newItem, items, viewVars,
                   focus, uiState, handlerBlocked, updates, wg, mainPc, crashed,
                   sent, tokensSent, doneCount, itemsTouchedBy>>

\* Where the loop goes after Done: `break NEW_ITEM_LOOP` (line 127) leaves it.
BreakTargetNextIteration == "select"
BreakTarget == "exited"

\* lines 126-127, 137: app.waitgroup.Done(); break NEW_ITEM_LOOP.
LoopDone ==
    /\ Alive /\ loopPc = "done"
    /\ wg' = wg - 1
    /\ doneCount' = doneCount + 1
    /\ loopPc' = BreakTarget
    /\ UNCHANGED <<files, scanVars, itemAdded, chClosed, stopCh, newItem, items,
                   viewVars, focus, uiState, handlerBlocked, updates, mainPc,
                   crashed, sent, tokensSent, closeCount, itemsTouchedBy>>

\* A receive on a buffered channel: <<value, rest>>. The oldest value first.
ChanRecvNewest(ch) == <<ch[Len(ch)], SubSeq(ch, 1, Len(ch) - 1)>>
ChanRecv(ch) == <<Head(ch), Tail(ch)>>

\* select, case newItem := <-app.itemAdded (line 129). A closed and drained
\* channel is ready too and yields the zero Item.
LoopRecvItem ==
    /\ Alive /\ loopPc = "select"
    /\ \/ /\ itemAdded # <<>>
          /\ newItem' = ChanRecv(itemAdded)[1]
          /\ itemAdded' = ChanRecv(itemAdded)[2]
       \/ /\ itemAdded = <<>> /\ chClosed
          /\ newItem' = ZeroItem
          /\ itemAdded' = itemAdded
    /\ loopPc' = "append"
    /\ UNCHANGED <<files, scanVars, chClosed, stopCh, items, viewVars, focus,
                   uiState, handlerBlocked, updates, wg, mainPc, crashed, histVars>>

\* append(app.items, *item) of line 161.
AppendItemInFront(its, it) == <<it>> \o its
AppendItemLost(its, it) == its
AppendItem(its, it) == Append(its, it)

\* addItem line 161: app.items = append(app.items, *item), executed by the
\* ingestion loop's goroutine itself. While loopPc = "append" this write is in
\* progress as far as the other goroutines can tell.
LoopAppend ==
    /\ Alive /\ loopPc = "append"
    /\ items' = AppendItem(items, newItem)
    /\ itemsTouchedBy' = itemsTouchedBy \cup {"loop"}
    /\ loopPc' = "queue"
    /\ UNCHANGED <<files, scanVars, itemAdded, chClosed, stopCh, newItem, viewVars,
                   focus, uiState, handlerBlocked, updates, wg, mainPc, crashed,
                   sent, tokensSent, closeCount, doneCount>>

\* addItem line 162: QueueUpdateDraw puts the closure on tview's update queue
\* (buffered) and then waits until the event loop has executed it.
LoopQueueUpdate ==
    /\ Alive /\ loopPc = "queue"
    /\ updates' = Append(updates, newItem)
    /\ loopPc' = "waitUpdate"
    /\ UNCHANGED <<files, scanVars, itemAdded, chClosed, stopCh, newItem, items,
                   viewVars, focus, uiState, handlerBlocked, wg, mainPc, crashed,
                   histVars>>

\* The select's `default: continue` (lines 132-133) changes nothing: the busy
\* poll is the loop staying at "select".
LoopNext ==
    LoopRecvStop \/ LoopClose \/ LoopDone \/ LoopRecvItem \/ LoopAppend
    \/ LoopQueueUpdate

\* ------------------------------------------------------------ UI thread
\* The event loop is handling events: Run has started and has not returned,
\* and the thread is not stuck inside the input handler.
UIServing == uiState \in {"running", "stopping"} /\ ~handlerBlocked

\* Values of len(app.items) a reader on the UI thread can observe. A read that
\* runs while the ingestion loop executes line 161 races with that write and
\* may see the length before or after it.
LenSeen == IF loopPc = "append" THEN {Len(items), Len(items) + 1} ELSE {Len(items)}

\* The handler with the selection stored one too far (index + 1).
ChangedFuncOffByOne(index, n) ==
    IF index + 1 > Len(items)
      THEN /\ crashed' = "ui"
           /\ UNCHANGED <<selectedItemIndex, headerView, descriptionView, footerView>>
      ELSE /\ selectedItemIndex' = index + 1
           /\ headerView' = items[index + 1].Title
           /\ descriptionView' = items[index + 1].Description
           /\ footerView' = FormatFooter(index + 1, n, items[index + 1].Footer)
           /\ UNCHANGED crashed

\* listView.SetChangedFunc handler, lines 61-68, for `index` seeing length n.
\* An index outside app.items panics.
ChangedFunc(index, n) ==
    IF index + 1 > Len(items)
      THEN /\ crashed' = "ui"
           /\ UNCHANGED <<selectedItemIndex, headerView, descriptionView, footerView>>
      ELSE /\ selectedItemIndex' = index
           /\ headerView' = items[index + 1].Title
           /\ descriptionView' = items[index + 1].Description
           /\ footerView' = FormatFooter(index + 1, n, items[index + 1].Footer)
           /\ UNCHANGED crashed

\* Run starts the event loop (line 151) ...
UIRunStart ==
    /\ Alive /\ uiState = "starting"
    /\ uiState' = "running"
    /\ UNCHANGED <<files, scanVars, itemAdded, chClosed, stopCh, loopPc, newItem,
                   items, viewVars, focus, handlerBlocked, updates, wg, mainPc,
                   crashed, histVars>>

\* ... or fails to set the screen up, and start panics (line 152).
UIRunError ==
    /\ Alive /\ uiState = "starting"
    /\ crashed' = "ui"
    /\ UNCHANGED <<files, scanVars, itemAdded, chClosed, stopCh, loopPc, newItem,
                   items, viewVars, focus, uiState, handlerBlocked, updates, wg,
                   mainPc, histVars>>

\* The footer text the queued closure writes (line 165), for the Item `it` it
\* captured, the selection s and the length n it reads.
UpdateFooter(it, s, n) == FormatFooter(s + 1, n, it.Footer)

\* The event loop executes the queued closure of addItem (lines 163-165) and
\* releases the caller of QueueUpdateDraw. List.AddItem fires the changed
\* handler with index 0 when it inserts the first entry.
UIRunUpdate ==
    /\ Alive /\ UIServing
    /\ updates # <<>>
    /\ LET it == Head(updates)
           first == listView = <<>>
       IN /\ listView' = Append(listView, it.Title)
          /\ IF first /\ Len(items) = 0
               THEN /\ crashed' = "ui"
                    /\ UNCHANGED <<selectedItemIndex, headerView, descriptionView,
                                   footerView>>
               ELSE /\ selectedItemIndex' = IF first THEN 0 ELSE selectedItemIndex
                    /\ headerView' = IF first THEN items[1].Title ELSE headerView
                    /\ descriptionView' =
                         IF first THEN items[1].Description ELSE descriptionView
                    /\ footerView' = UpdateFooter(it, selectedItemIndex', Len(items))
                    /\ UNCHANGED crashed
    /\ updates' = Tail(updates)
    /\ loopPc' = IF loopPc = "waitUpdate" THEN "select" ELSE loopPc
    /\ itemsTouchedBy' = itemsTouchedBy \cup {"ui"}
    /\ UNCHANGED <<files, scanVars, itemAdded, chClosed, stopCh, newItem, items,
                   focus, uiState, handlerBlocked, wg, mainPc, sent, tokensSent,
                   closeCount, doneCount>>

\* j / k with the list focused (lines 87-91) become Down / Up: the list moves
\* its selection (wrapping around) and calls the changed handler.
UIKeyNav ==
    /\ Alive /\ UIServing
    /\ focus = "list"
    /\ Len(listView) > 1
    /\ \E d \in {1, Len(listView) - 1}, n \in LenSeen :
         ChangedFunc((selectedItemIndex + d) % Len(listView), n)
    /\ itemsTouchedBy' = itemsTouchedBy \cup {"ui"}
    /\ UNCHANGED <<files, scanVars, itemAdded, chClosed, stopCh, loopPc, newItem,
                   items, listView, focus, uiState, handlerBlocked, updates, wg,
                   mainPc, sent, tokensSent, closeCount, doneCount>>

\* A mouse click on list entry i: the mouse capture focuses the list
\* (lines 70-77); a new selection calls the changed handler.
UIMouseSelect ==
    /\ Alive /\ UIServing
    /\ \E i \in 0..(Len(listView) - 1), n \in LenSeen :
         /\ i # selectedItemIndex
         /\ ChangedFunc(i, n)
    /\ focus' = "list"
    /\ itemsTouchedBy' = itemsTouchedBy \cup {"ui"}
    /\ UNCHANGED <<files, scanVars, itemAdded, chClosed, stopCh, loopPc, newItem,
                   items, listView, uiState, handlerBlocked, updates, wg,
                   mainPc, sent, tokensSent, closeCount, doneCount>>

\* A mouse click that moves the focus: onto the list, or onto another view.
UIClickFocus ==
    /\ Alive /\ UIServing
    /\ \E f \in {"list", "other"} : f # focus /\ focus' = f
    /\ UNCHANGED <<files, scanVars, itemAdded, chClosed, stopCh, loopPc, newItem,
                   items, viewVars, uiState, handlerBlocked, updates, wg, mainPc,
                   crashed, histVars>>

\* `app.stopReceiveNewItem <- true` (lines 83, 94) on a count n of tokens.
SendTokenSkipped(n) == n
SendToken(n) == n + 1

\* The key is one the input handler treats as quit: Ctrl+C always (line 81),
\* q only while the list has the focus (lines 87, 92).
IsQuitKey(key) == key = "CtrlC" \/ (key = "q" /\ focus = "list")

\* Input handler, lines 79-100, on a quit key with room in stopReceiveNewItem:
\* the token is sent and the returned Ctrl+C event makes tview call Stop. Key
\* events already queued are still handled before Run returns.
UIQuitKey ==
    /\ Alive /\ UIServing
    /\ \E key \in {"CtrlC", "q"} : IsQuitKey(key)
    /\ stopCh < StopCap
    /\ stopCh' = SendToken(stopCh)
    /\ tokensSent' = SendToken(tokensSent)
    /\ uiState' = "stopping"
    /\ UNCHANGED <<files, scanVars, itemAdded, chClosed, loopPc, newItem, items,
                   viewVars, focus, handlerBlocked, updates, wg, mainPc, crashed,
                   sent, closeCount, doneCount, itemsTouchedBy>>

\* The same with stopReceiveNewItem full: `app.stopReceiveNewItem <- true`
\* blocks the handler, and with it the event loop.
UIQuitKeyBlocks ==
    /\ Alive /\ UIServing
    /\ \E key \in {"CtrlC", "q"} : IsQuitKey(key)
    /\ stopCh >= StopCap
    /\ handlerBlocked' = TRUE
    /\ UNCHANGED <<files, scanVars, itemAdded, chClosed, stopCh, loopPc, newItem,
                   items, viewVars, focus, uiState, updates, wg, mainPc, crashed,
                   histVars>>

\* A blocked send completes once the ingestion loop has taken a token.
UIQuitKeyResumes ==
    /\ Alive /\ handlerBlocked
    /\ stopCh < StopCap
    /\ stopCh' = SendToken(stopCh)
    /\ tokensSent' = SendToken(tokensSent)
    /\ handlerBlocked' = FALSE
    /\ uiState' = "stopping"
    /\ UNCHANGED <<files, scanVars, itemAdded, chClosed, loopPc, newItem, items,
                   viewVars, focus, updates, wg, mainPc, crashed, sent,
                   closeCount, doneCount, itemsTouchedBy>>

\* Run returns after Stop (line 151); start goes on to waitgroup.Wait.
UIRunReturns ==
    /\ Alive /\ uiState = "stopping" /\ ~handlerBlocked
    /\ uiState' = "returned"
    /\ mainPc' = "wait"
    /\ UNCHANGED <<files, scanVars, itemAdded, chClosed, stopCh, loopPc, newItem,
                   items, viewVars, focus, handlerBlocked, updates, wg, crashed,
                   histVars>>

\* lines 156-157 and main: waitgroup.Wait returns once the counter is zero;
\* start and main return and the process exits.
MainWait ==
    /\ Alive /\ mainPc = "wait"
    /\ wg = 0
    /\ mainPc' = "exited"
    /\ UNCHANGED <<files, scanVars, itemAdded, chClosed, stopCh, loopPc, newItem,
                   items, viewVars, focus, uiState, handlerBlocked, updates, wg,
                   crashed, histVars>>

UINext ==
    UIRunStart \/ UIRunError \/ UIRunUpdate \/ UIKeyNav \/ UIMouseSelect
    \/ UIClickFocus \/ UIQuitKey \/ UIQuitKeyBlocks \/ UIQuitKeyResumes
    \/ UIRunReturns \/ MainWait

Next == ScannerNext \/ LoopNext \/ UINext

Spec == Init /\ [][Next]_vars

\* Scheduling: every goroutine that can take a step eventually takes one, and
\* a running event loop eventually serves a queued update. Nothing obliges the
\* user to press a key or click.
FairSpec ==
    /\ Spec
    /\ WF_vars(ScannerNext)
    /\ WF_vars(LoopRecvStop)
    /\ WF_vars(LoopRecvItem)
    /\ WF_vars(LoopClose \/ LoopDone \/ LoopAppend \/ LoopQueueUpdate)
    /\ WF_vars(UIRunStart)
    /\ WF_vars(UIRunUpdate)
    /\ WF_vars(UIQuitKeyResumes)
    /\ WF_vars(UIRunReturns)
    /\ WF_vars(MainWait)

\* ================================================================ claims
\* A shutdown token has been sent on stopReceiveNewItem.
TokenSent == tokensSent > 0

\* C1: shutdown liveness. Once a shutdown token has been sent, the ingestion
\* loop eventually reaches STOPPED (Done called, loop left), whatever is still
\* in itemAdded and whether or not Run still serves queued updates. (A process
\* killed by a panic is C2's subject and is not counted against this claim.)
C1_ShutdownLiveness == TokenSent ~> (LoopState = "STOPPED" \/ crashed # "no")

\* C2: after shutdown no scanner send fails: the scanner's pending sends stay
\* blocked, none panics on a closed channel, and the process is not killed by
\* the scanner.
C2_ScannerSendNeverPanics == scanPc # "panicked" /\ crashed # "scanner"

\* C3: app.items is read and written only on the UI thread (queued closures
\* and handlers); the scanner and the ingestion loop never touch it, so no
\* write of it is in progress on another goroutine while a handler reads it.
C3_ItemsOnlyOnUIThread == itemsTouchedBy \subseteq {"ui"} /\ loopPc # "append"

\* C4: the ingestion loop starts no addItem / QueueUpdateDraw call after Run
\* has returned.
C4_NoAddItemAfterRunReturned ==
    [][(loopPc' # loopPc /\ loopPc' \in {"append", "waitUpdate"})
         => uiState # "returned"]_vars

\* C5: start returns only when Run has returned and the ingestion loop is
\* STOPPED, and once Run has returned normally start eventually returns. (A
\* process killed by a panic is C2's subject and is not counted against this
\* claim.)
C5_BarrierOrdering ==
    /\ [](mainPc = "exited" => uiState = "returned" /\ LoopState = "STOPPED")
    /\ (uiState = "returned") ~> (mainPc = "exited" \/ crashed # "no")

\* C6: order preservation. app.items is at all times a prefix of the sequence
\* of Items the scanner has sent, same order, nothing duplicated or skipped.
C6_OrderPreserved ==
    /\ Len(items) <= Len(sent)
    /\ items = SubSeq(sent, 1, Len(items))

\* C6 witness: several items have arrived and the scanner is ahead of the
\* ingestion loop.
C6_Witness ==
    /\ Len(items) >= 2
    /\ Len(sent) > Len(items)

\* C7: footer accuracy. Right after the queued closure for the k-th item has
\* run with selectedItemIndex = s, the footer reads "{s+1}/{k}: " followed by
\* the Footer of the selected item, items[s].
C7_FooterShowsSelected ==
    [][(Len(listView') = Len(listView) + 1 /\ crashed' = "no")
         => footerView' = FormatFooter(selectedItemIndex' + 1, Len(items'),
                                       items'[selectedItemIndex' + 1].Footer)]_vars

\* C8: idempotent quit. With two shutdown tokens sent the ingestion loop still
\* reaches STOPPED, closes itemAdded once, calls Done once, and reads one
\* token only. (A process killed by a panic is C2's subject and is not counted
\* against this claim.)
C8_IdempotentQuit ==
    /\ [](closeCount <= 1 /\ doneCount <= 1 /\ tokensSent - stopCh <= 1)
    /\ (tokensSent >= 2) ~> (LoopState = "STOPPED" \/ crashed # "no")

\* C9: the quit input handler never blocks: whenever it handles a quit key
\* stopReceiveNewItem has room, so the send completes at once.
C9_QuitHandlerNeverBlocks == ~handlerBlocked

\* Exactly one of the listed entries fails os.Stat.
OneStatFails == Cardinality({i \in 1..Len(files) : ~files[i].statOk}) = 1

\* The Items of the entries whose os.Stat succeeds, in listing order.
RECURSIVE ItemsOf(_, _)
ItemsOf(fs, p) ==
    IF fs = <<>> THEN <<>>
    ELSE (IF Head(fs).statOk THEN <<MakeItem(p, Head(fs).name)>> ELSE <<>>)
         \o ItemsOf(Tail(fs), p)

\* The run is outside the claim's case: a quit key was handled, the listing
\* itself failed, or the UI never came up.
C10_Excluded ==
    TokenSent \/ handlerBlocked \/ scanPc = "failed" \/ crashed # "no"

\* C10: per-entry isolation. With exactly one of the N listed entries failing
\* os.Stat and no quit, app.items eventually holds the N-1 other Items in
\* listing order.
C10_PerEntryIsolation ==
    OneStatFails ~> (C10_Excluded \/ items = ItemsOf(files, path))

\* C10 witness: the failing entry is not the last one, nobody quit, and all
\* the other entries are in app.items.
C10_Witness ==
    /\ OneStatFails
    /\ Len(files) >= 3
    /\ ~files[1].statOk
    /\ ~C10_Excluded
    /\ scanPc = "done"
    /\ items = ItemsOf(files, path)
    /\ Len(listView) = Len(files) - 1

\* The scan has ended without emitting any item: the directory was empty, no
\* entry could be stat'ed, or the path or the listing could not be obtained.
NoItemScan == scanPc \in {"done", "failed"} /\ sent = <<>>

\* C11: a zero-item scan leaves the app usable. The scanner has terminated
\* without sending, app.items stays empty, nothing crashes, and a quit key
\* still drives the ingestion loop to STOPPED and the process to exit.
C11_ZeroItemScanUsable ==
    /\ [](NoItemScan => items = <<>> /\ listView = <<>> /\ itemAdded = <<>>
                        /\ (crashed # "no" => uiState = "starting"))
    /\ [][NoItemScan => NoItemScan']_vars
    /\ (NoItemScan /\ TokenSent) ~> (LoopState = "STOPPED" /\ mainPc = "exited")

\* C12: no partial items. Every element of app.items is an Item the scanner
\* built in full and sent: its title is a file name (non-empty), its footer is
\* parentPath/title, and it is never the zero Item of a closed or empty channel.
C12_NoPartialItems ==
    \A i \in 1..Len(items) :
        /\ items[i] # ZeroItem
        /\ items[i].Title # ZeroItem.Title
        /\ items[i].Footer = FullPath(path, items[i].Title)
        /\ \E j \in 1..Len(sent) : sent[j] = items[i]

\* C12 witness: items were appended and the ingestion loop has since closed
\* itemAdded and stopped.
C12_Witness ==
    /\ Len(items) >= 2
    /\ chClosed
    /\ LoopState = "STOPPED"

\* C13: selectedItemIndex is a valid index: whenever app.items is non-empty,
\* 0 <= selectedItemIndex < len(items).
C13_SelectedIndexValid ==
    items # <<>> => (selectedItemIndex >= 0 /\ selectedItemIndex < Len(items))

\* C13 witness: the user has moved the selection to the last of several
\* entries of the list.
C13_Witness ==
    /\ Len(listView) >= 2
    /\ selectedItemIndex = Len(listView) - 1
    /\ Len(items) = Len(listView)

\* An iteration of the ingestion loop takes an item from itemAdded in this step.
TakesItem == loopPc = "select" /\ loopPc' = "append"

\* C14: shutdown has priority over item consumption. An iteration takes an
\* item from itemAdded only if no shutdown token is pending at that moment, so
\* no iteration that starts after a token was sent appends to app.items.
C14_ShutdownHasPriority == [][TakesItem => stopCh = 0]_vars

\* The moves the ingestion loop's state machine allows.
LoopStateMoves ==
    {<<"RUNNING", "RUNNING">>, <<"RUNNING", "DRAINING">>,
     <<"DRAINING", "DRAINING">>, <<"DRAINING", "STOPPED">>,
     <<"STOPPED", "STOPPED">>}

\* C15: the ingestion loop only moves RUNNING -> DRAINING -> STOPPED; it
\* leaves RUNNING exactly in the step that reads a token from
\* stopReceiveNewItem; once STOPPED it takes no further item or token and
\* appends nothing; and STOPPED means exactly one Done was called.
C15_LoopStateMachine ==
    /\ [][/\ <<LoopState, LoopState'>> \in LoopStateMoves
          /\ (LoopState = "RUNNING" /\ LoopState' # "RUNNING") <=> (stopCh' < stopCh)
          /\ LoopState = "STOPPED" =>
                /\ items' = items
                /\ itemAdded' = itemAdded
                /\ stopCh' >= stopCh
                /\ doneCount' = doneCount]_vars
    /\ [](doneCount = (IF LoopState = "STOPPED" THEN 1 ELSE 0))
    /\ [](wg = 1 - doneCount)

\* C15 witness: the loop is STOPPED with an item and a token left unread and
\* items appended earlier.
C15_Witness ==
    /\ LoopState = "STOPPED"
    /\ stopCh >= 1
    /\ itemAdded # <<>>
    /\ items # <<>>

\* C16: every UI stop is preceded by a shutdown token. Run is stopped only by
\* a quit key the input handler has handled, and the token is on
\* stopReceiveNewItem before the stopping event is returned, so waitgroup.Wait
\* is never reached without a token having been sent.
C16_StopPrecededByToken ==
    /\ [](uiState \in {"stopping", "returned"} => TokenSent)
    /\ [](mainPc \in {"wait", "exited"} => TokenSent /\ uiState = "returned")
    /\ [][(uiState = "running" /\ uiState' # "running")
            => (tokensSent' > tokensSent /\ uiState' = "stopping")]_vars

\* C16 witness: Run has returned after a quit key and start waits on the barrier.
C16_Witness ==
    /\ uiState = "returned"
    /\ mainPc = "wait"
    /\ tokensSent = 1

\* The Item the ingestion loop has received and not yet appended.
InHand == IF loopPc = "append" THEN <<newItem>> ELSE <<>>

\* The scanner is blocked in its send: itemAdded is open and full.
SendBlocked == scanPc = "send" /\ ~chClosed /\ Len(itemAdded) >= ItemChanCap

\* C17: backpressure without loss. itemAdded never holds more than its
\* capacity; a send on a full channel blocks, neither advancing to the next
\* entry nor dropping the item; and while the ingestion loop is RUNNING every
\* Item sent is in exactly one place: app.items, the loop's hand, or itemAdded.
C17_BackpressureNoLoss ==
    /\ [](Len(itemAdded) <= ItemChanCap)
    /\ [](LoopState = "RUNNING" => sent = items \o InHand \o itemAdded)
    /\ [][SendBlocked => (UNCHANGED <<scanPc, scanIdx, scanItem, sent>>
                          /\ Len(itemAdded') <= Len(itemAdded))]_vars

\* C17 witness: the channel is full, the scanner is blocked holding the next
\* Item, and the ingestion loop is RUNNING.
C17_Witness ==
    /\ SendBlocked
    /\ Len(itemAdded) = ItemChanCap
    /\ LoopState = "RUNNING"
    /\ scanItem # itemAdded[Len(itemAdded)]

\* C18: app.items is append-only. It starts empty, and every step leaves it
\* unchanged or extends it by exactly one element at the end; nothing is
\* removed, reordered or overwritten.
C18_ItemsAppendOnly ==
    /\ items = <<>>
    /\ [][\/ items' = items
          \/ /\ Len(items') = Len(items) + 1
             /\ SubSeq(items', 1, Len(items)) = items]_vars

\* C18 witness: items has grown several times, with selection changes by the
\* user in between.
C18_Witness ==
    /\ Len(items) >= 3
    /\ selectedItemIndex = 1

\* C19: the list widget never runs ahead of the data. The list has at most
\* len(items) entries, their titles are the titles of the first items in
\* order, and so the index the list hands to the changed handler is always a
\* valid index of app.items: the handler's app.items[index] never panics (the
\* only panic on the UI thread is Run failing to start).
C19_ListNeverAhead ==
    /\ Len(listView) <= Len(items)
    /\ \A i \in 1..Len(listView) : listView[i] = items[i].Title
    /\ crashed = "ui" => (uiState = "starting" /\ listView = <<>>)

\* C19 witness: the list is behind the data (an appended Item is not yet in
\* the list) and the handler has been called for the last list entry.
C19_Witness ==
    /\ Len(listView) = 2
    /\ Len(items) = 3
    /\ selectedItemIndex = 1
    /\ headerView = items[2].Title

\* The titles of a sequence of Items.
TitlesOf(its) == [i \in 1..Len(its) |-> its[i].Title]

\* The scanner has terminated and everything it sent is in app.items and in
\* the list widget.
AllIngested ==
    /\ scanPc \in {"done", "failed"}
    /\ (scanPc = "done" =>
          Len(sent) = Cardinality({i \in 1..Len(files) : files[i].statOk}))
    /\ items = sent
    /\ listView = TitlesOf(sent)
    /\ itemAdded = <<>>

\* The run is outside C20's case: a quit key was handled or the UI never came
\* up to serve updates.
C20_Excluded == TokenSent \/ handlerBlocked \/ crashed # "no"

\* C20: ingestion liveness without shutdown. If no quit key is pressed and
\* the event loop keeps serving updates, then under fair scheduling the
\* scanner terminates and every Item it sent ends up in app.items and in the
\* list, also when there are more entries than itemAdded can hold.
C20_IngestionLiveness == <>(C20_Excluded \/ AllIngested)

\* C20 witness: a listing longer than the channel's capacity, every entry
\* stat'ed, has been ingested in full without a quit.
C20_Witness ==
    /\ ~C20_Excluded
    /\ AllIngested
    /\ Len(files) > ItemChanCap
    /\ Len(items) = Len(files)
====
